---- MODULE Spec2Model ----
(***************************************************************************)
(* EncFSUtilities (src/src/EncFSUtilities.cpp): creation of a volume       *)
(* configuration, password change, and the recursive export of a volume.   *)
(*                                                                         *)
(* Two state machines share the module.  SpecExport runs exportEncFS /     *)
(* exportDir / exportFile over a source tree; SpecKey runs createEncFS and *)
(* changePassword over a configuration store.  libencfs (ConfigReader,     *)
(* Cipher, DirNode, FileNode, fs_layer) is not part of the source file:    *)
(* its operations are modelled from their contract.                        *)
(***************************************************************************)
EXTENDS Integers, Sequences, FiniteSets, TLC

\* ------------------------------------------------------------------ bounds
\* Size of the largest source file (spans two 512-byte blocks).
MaxFileSize == 1000

\* How many operations of one export run may be made to fail.
MaxFaults == 3

\* Number of passphrases, of master keys the generator can yield, and of
\* salt values the random source can yield.
NumPass == 2

NumKeys == 2

NumSalts == 2

\* How many consecutive loop iterations the arithmetic of the block loop is
\* followed for, from the index it is picked up at.
MaxReads == 3

\* ------------------------------------------------------- program constants
\* const int V6SubVersion = 20100713
V6SubVersion == 20100713

\* exportFile: const int blockSize = 512
blockSize == 512

\* ------------------------------------------------------------ source tree
\* Paths are sequences of names; <<>> is the logical root "/".
Root == <<>>

\* Where exportEncFS is asked to put the plaintext tree (exportPath).
ExportPath == <<"out">>

\* What DirTraverse::nextPlaintextName yields for a directory, in order;
\* the pseudo entries "." and ".." are part of every listing.
Listing(d) ==
    CASE d = <<>>           -> <<".", "..", "F1", "D", "L", "F2">>
      [] d = <<"D">>        -> <<".", "F3", "..", "E">>
      [] d = <<"D", "E">>   -> <<".", "..", "F4">>
      [] OTHER              -> <<>>

DirPaths == {<<>>, <<"D">>, <<"D", "E">>}

FileSeq == << <<"F1">>, <<"F2">>, <<"D", "F3">>, <<"D", "E", "F4">> >>

FilePaths == {FileSeq[j] : j \in 1..Len(FileSeq)}

LinkPaths == {<<"L">>}

EntryPaths == (DirPaths \ {Root}) \cup FilePaths \cup LinkPaths

\* st_mode file type found by lstat on the encrypted path of an entry
Kind(p) ==
    IF p \in DirPaths THEN "dir" ELSE IF p \in FilePaths THEN "reg" ELSE "lnk"

\* permission bits of st_mode (decimal for 0755, 0700, 0750, 0644, 0600, 0640, 0444)
Mode(p) ==
    CASE p = <<>>              -> 493
      [] p = <<"D">>           -> 448
      [] p = <<"D", "E">>      -> 488
      [] p = <<"F1">>          -> 420
      [] p = <<"F2">>          -> 384
      [] p = <<"D", "F3">>     -> 416
      [] p = <<"D", "E", "F4">> -> 292
      [] OTHER                 -> 420

\* sizes a source file may have: empty, below one block, exactly one block,
\* two blocks with a partial last one
SizeSeq == <<100, 0, MaxFileSize, blockSize>>

\* the source trees of the model: the files take the sizes of SizeSeq in
\* turn, so that every file has every size in one of them
SizeProfiles ==
    {[p \in FilePaths |->
        LET j == CHOOSE n \in 1..Len(FileSeq) : FileSeq[n] = p
        IN  SizeSeq[((j + k) % Len(SizeSeq)) + 1]] : k \in 0..(Len(SizeSeq) - 1)}

\* the decrypted byte at offset k (0-based) of file p
SrcByte(p, k) == (k * 7 + Len(p) * 31 + Mode(p)) % 256

\* the decrypted content of file p when its size is n
Content(p, n) == [k \in 1..n |-> SrcByte(p, k - 1)]

\* the bytes of file p at offsets lo .. hi - 1
Bytes(p, lo, hi) == [k \in 1..(hi - lo) |-> SrcByte(p, lo + k - 1)]

\* ------------------------------------------------------------- arithmetic
Min(a, b) == IF a < b THEN a ELSE b

\* a block count that drops the partial last block
BlockCount_RoundedDown(size) == size \div blockSize

\* int blocks = (node->getSize() + blockSize-1) / blockSize
\* (the sizes of the source tree are far below the range of int)
BlockCount(size) == (size + blockSize - 1) \div blockSize

\* a loop that reads every block from the start of the file
ReadOffset_Restart(i) == 0

\* i * blockSize, the offset handed to node->read
ReadOffset(i) == i * blockSize

\* ---------------------------------------------- arithmetic in int and off_t
\* INT_MAX: blocks, i and blockSize are 32-bit int; node->getSize() and the
\* offset parameter of node->read are 64-bit off_t
IntMax == 2147483647

\* a number beyond the range of int: hi * 2^31 + lo with 0 <= lo <= IntMax;
\* hi = -1 holds the negative int values
Wide(hi, lo) == [hi |-> hi, lo |-> lo]

WideLess(a, b) == a.hi < b.hi \/ (a.hi = b.hi /\ a.lo < b.lo)

WideSucc(w) == IF w.lo = IntMax THEN Wide(w.hi + 1, 0) ELSE Wide(w.hi, w.lo + 1)

\* a file size as node->getSize() reports it: full blocks and the bytes of
\* a partial last block, full * blockSize + rem
FileSize(full, rem) == [full |-> full, rem |-> rem]

\* (node->getSize() + blockSize-1) / blockSize, evaluated in off_t
WideBlockCount(size) ==
    LET carry == (size.rem + blockSize - 1) \div blockSize
    IN  IF carry = 1 THEN WideSucc(size.full) ELSE size.full

\* the conversion of an off_t to int keeps the low 32 bits
ToInt(w) == IF w.hi % 2 = 0 THEN Wide(0, w.lo) ELSE Wide(-1, w.lo)

\* int blocks = (node->getSize() + blockSize-1) / blockSize
IntBlockCount(size) == ToInt(WideBlockCount(size))

\* the first i whose product with blockSize is beyond INT_MAX
OffsetLimit == (IntMax \div blockSize) + 1

\* the product i * blockSize of the integers
WideProduct(i) == Wide(i \div OffsetLimit, (i % OffsetLimit) * blockSize)

\* i * blockSize as the loop computes it, in int, converted to the off_t
\* parameter of node->read.  Below OffsetLimit it is ReadOffset(i); from
\* there on the signed product overflows, and the build either wraps it
\* around or has widened the loop index and yields the full product.
IntProducts(i) ==
    IF i < OffsetLimit
    THEN {WideProduct(i)}
    ELSE {ToInt(WideProduct(i)), WideProduct(i)}

\* file sizes around the limits of the arithmetic: full blocks below, at and
\* above OffsetLimit and IntMax, with and without a partial last block
FullSamples ==
    {Wide(h, q) : h \in {0, 1},
                  q \in {0, 1, OffsetLimit - 1, OffsetLimit, OffsetLimit + 1, IntMax}}

SizeSamples == {FileSize(f, r) : f \in FullSamples, r \in {0, 1, blockSize - 1}}

\* loop indices at which the arithmetic is picked up
IndexSamples ==
    {1, OffsetLimit - 2, OffsetLimit - 1, OffsetLimit, 2 * OffsetLimit - 1, IntMax - 1}

\* the arithmetic before a size is known
ArithIdle ==
    [pc |-> "idle", size |-> FileSize(Wide(0, 0), 0), blocks |-> Wide(0, 0),
     i |-> 0, offset |-> Wide(0, 0), prev |-> Wide(0, 0), reads |-> 0]

\* FileNode::read(offset, buf, blockSize) without error: the bytes of the
\* file from offset, at most blockSize of them
ReadData(p, size, off) ==
    IF off < 0 \/ off >= size THEN <<>>
    ELSE Bytes(p, off, Min(off + blockSize, size))

\* ------------------------------------------------------ key management
Pass == 1..NumPass

\* master keys; 0 is the empty CipherKey (a null shared_ptr)
Keys == 1..NumKeys

NoKey == 0

\* salt values; 0 is the empty salt (salt.clear())
Salts == 1..NumSalts

NoSalt == 0

\* a key-encryption key is determined by what it was derived from; the
\* record of zeros is the empty CipherKey
DeriveKey(pass, salt, iters) == [pass |-> pass, salt |-> salt, iters |-> iters]

NoKek == DeriveKey(0, 0, 0)

\* Cipher::writeKey: the master key encoded under a key-encryption key, with
\* the checksum that lets readKey tell a wrong key
WriteKey(volumeKey, userKey) == [key |-> volumeKey, kek |-> userKey]

\* key data that no key-encryption key decodes (an empty or a garbled buffer)
NoKeyData == WriteKey(NoKey, NoKek)

\* Cipher::readKey: the master key when the checksum matches, else no key
ReadKey(keyData, userKey) ==
    IF keyData # NoKeyData /\ userKey # NoKek /\ keyData.kek = userKey
    THEN keyData.key
    ELSE NoKey

\* a creation that goes on without a cipher
CipherMissing_Never(cipher) == FALSE

\* if(!cipher) return false
CipherMissing(cipher) == ~cipher

\* Cipher::New by name and key size, and by interface: the registered ciphers
CipherNames == {"AES", "Serpent"}

KeySizes == {192, 0}

CipherByName(name, keySize) == name = "AES" /\ keySize = 192

\* cipher->get_interface()
CipherIface(name) == IF name = "AES" THEN "ssl/aes" ELSE "ssl/none"

CipherByIface(iface, keySize) == iface = "ssl/aes"

\* NameIO::GetAlgorithmList(): name and interface (name, current revision)
NameAlgorithms ==
    {[name |-> "Block",  iface |-> [name |-> "nameio/block",  current |-> 4]],
     [name |-> "Stream", iface |-> [name |-> "nameio/stream", current |-> 2]],
     [name |-> "Null",   iface |-> [name |-> "nameio/null",   current |-> 1]]}

\* BlockNameIO::CurrentInterface()
BlockCurrentInterface == [name |-> "nameio/block", current |-> 4]

\* names a caller may ask for, one of them unknown
NameEncodings == {"Block", "Stream", "Base64"}

\* a lookup that has no default: an unknown name yields no interface
ResolveNameIO_Strict(nameEncoding) ==
    IF \E a \in NameAlgorithms : a.name = nameEncoding
    THEN (CHOOSE a \in NameAlgorithms : a.name = nameEncoding).iface
    ELSE [name |-> "", current |-> 0]

\* the loop over the algorithm list: the interface of the matching name,
\* else the block interface
ResolveNameIO(nameEncoding) ==
    IF \E a \in NameAlgorithms : a.name = nameEncoding
    THEN (CHOOSE a \in NameAlgorithms : a.name = nameEncoding).iface
    ELSE BlockCurrentInterface

\* EFS_COMPATIBILITY_WORKAROUND: revision 4 is written as revision 3
CompatIface(iface) ==
    IF iface.current = 4 THEN [iface EXCEPT !.current = 3] ELSE iface

\* desired key derivation durations (ms) and the rates (iterations per ms)
\* the calibration may measure
Durations == {0, 500}

CalibrationRates == {1, 2}

\* the floor of the calibrated iteration count
MinIterations == 1

\* the iteration count calibration arrives at
Calibrate(duration, rate) ==
    IF duration * rate < MinIterations THEN MinIterations ELSE duration * rate

\* option sets a caller of createEncFS may pass
FlagProfiles ==
    {[perBlockHMAC |-> FALSE, uniqueIV |-> FALSE, chainedIV |-> FALSE, externalIV |-> FALSE],
     [perBlockHMAC |-> TRUE,  uniqueIV |-> TRUE,  chainedIV |-> TRUE,  externalIV |-> FALSE]}

\* a freshly constructed EncFSConfig
DefaultConfig ==
    [cfgType |-> "None", cipherIface |-> "", keySize |-> 0, blockSize |-> 0,
     nameIface |-> [name |-> "", current |-> 0], creator |-> "", subVersion |-> 0,
     blockMACBytes |-> 0, blockMACRandBytes |-> 0, uniqueIV |-> FALSE,
     chainedNameIV |-> FALSE, externalIVChaining |-> FALSE, allowHoles |-> FALSE,
     salt |-> NoSalt, kdfIterations |-> 0, desiredKDFDuration |-> 500,
     keyData |-> NoKeyData]

\* the fields a password change has no business with
Frame(c) ==
    [c EXCEPT !.salt = NoSalt, !.kdfIterations = 0, !.keyData = NoKeyData]

\* the configuration createEncFS builds before any key exists
NewConfig(cipherName, keySize, cipherBlockSize, nameEncoding, duration, flags) ==
    [cfgType |-> "V6",
     cipherIface |-> CipherIface(cipherName),
     keySize |-> keySize,
     blockSize |-> cipherBlockSize,
     nameIface |-> CompatIface(ResolveNameIO(nameEncoding)),
     creator |-> "EncFS",
     subVersion |-> V6SubVersion,
     blockMACBytes |-> (IF flags.perBlockHMAC THEN 8 ELSE 0),
     blockMACRandBytes |-> 0,
     uniqueIV |-> flags.uniqueIV,
     chainedNameIV |-> flags.chainedIV,
     externalIVChaining |-> flags.externalIV,
     allowHoles |-> TRUE,
     salt |-> NoSalt,
     kdfIterations |-> 0,
     desiredKDFDuration |-> duration,
     keyData |-> NoKeyData]

\* what the config store holds when no configuration file exists
NoStore == [type |-> "None", cfg |-> DefaultConfig]

\* configurations of the supported format versions found at a root: written
\* by an earlier create, under passphrase p and master key k
StoredVersions == {"V3", "V4", "V5", "V6"}

ExistingConfig(v, iface, p, k) ==
    [NewConfig("AES", 192, 1024, "Block", 500, CHOOSE f \in FlagProfiles : f.uniqueIV)
        EXCEPT !.cfgType = v,
               !.cipherIface = iface,
               !.salt = 1,
               !.kdfIterations = 500,
               !.keyData = WriteKey(k, DeriveKey(p, 1, 500))]

InitStores ==
    {NoStore, [type |-> "Prehistoric", cfg |-> DefaultConfig]}
    \cup {[type |-> v, cfg |-> ExistingConfig(v, i, p, 1)] :
             v \in StoredVersions, i \in {"ssl/aes", "ssl/none"}, p \in Pass}

\* the master key under which a configuration of InitStores was written
StoredMaster(st) == IF st.type \in StoredVersions THEN st.cfg.keyData.key ELSE NoKey

\* EncFSConfig::getUserKey: the key-encryption key of a passphrase, and the
\* configuration after it.  With kdfIterations = 0 the salt is regenerated
\* (s, a value other than the one it replaces) and the iteration count is
\* calibrated (rate) and stored; else salt and count are used as they are.
UserKeyConfig(cfg, s, rate) ==
    IF cfg.kdfIterations = 0
    THEN [cfg EXCEPT !.salt = s,
                     !.kdfIterations = Calibrate(cfg.desiredKDFDuration, rate)]
    ELSE cfg

UserKeyOf(cfg, pass) == DeriveKey(pass, cfg.salt, cfg.kdfIterations)

FreshSalts(cfg) == Salts \ {cfg.salt}

VARIABLES
    \* ---- config store and the create / password change call in progress
    store,       \* the configuration file: [type, cfg]
    pcK,         \* position of the call
    call,        \* operation and arguments of the call
    config,      \* the EncFSConfig of the call
    cfgType,     \* what readConfig returned
    userKey,     \* CipherKey userKey
    volumeKey,   \* CipherKey volumeKey
    retK,        \* return value of the call
    errorMsg,    \* errorMsg of changePassword
    \* ---- history of the call
    exitK,       \* the exit the call took
    trace,       \* the states of the password change passed so far
    handed,      \* what was handed to saveConfig: [type, cfg, ok]
    resets,      \* explicit reset() calls on each key that held a key
    acquired,    \* the keys the call obtained
    storeAtCall, \* the store when the call began
    \* ---- history of the volume
    masterKey    \* the master key generated when the volume was created

keyVars == <<store, pcK, call, config, cfgType, userKey, volumeKey, retK,
             errorMsg, exitK, trace, handed, resets, acquired, storeAtCall,
             masterKey>>

VARIABLES
    \* ---- export
    pcE,        \* position of the export call
    stack,      \* the active exportDir calls, outermost first
    cur,        \* the exportFile call in progress
    retVal,     \* value being returned by the exportDir call on top of stack
    result,     \* return value of exportEncFS (meaningful when pcE = "done")
    exportMsg,  \* errorMsg of exportEncFS
    fsize,      \* size of every source file
    destDirs,   \* destination directories: path -> mode
    destFiles,  \* destination files: path -> [mode, data]
    openFds,    \* destination handles currently open
    \* ---- export, history
    faults,     \* the operations that failed so far: <<kind, path>>
    visited,    \* entries taken from a directory cursor and stat'ed, in order
    dirRet,     \* exportDir calls that returned: path -> value
    fileRet,    \* exportFile calls that returned: path -> value
    ioLog       \* the calls made on the volume and the destination, in order

exportVars == <<pcE, stack, cur, retVal, result, exportMsg, fsize, destDirs,
                destFiles, openFds, faults, visited, dirRet, fileRet, ioLog>>

VARIABLES
    \* ---- the integer arithmetic of the block loop of exportFile
    arith       \* [pc, size, blocks, i, offset, prev, reads]

vars == <<exportVars, keyVars, arith>>

NoFile == [src |-> <<"-">>, dst |-> <<"-">>, fd |-> -1, i |-> 0, blocks |-> 0]

Top == stack[Len(stack)]

\* one more operation may be made to fail
CanFail == Cardinality(faults) < MaxFaults

Fault(kind, p) == CanFail /\ faults' = faults \cup {<<kind, p>>}

\* the operations of F fail in one step
Faults(F) ==
    /\ Cardinality(faults) + Cardinality(F) <= MaxFaults
    /\ faults' = faults \cup F

\* a call on the volume or the destination: what was called, for which
\* source path, with which argument (mode, offset or handle) and length, and
\* what it returned
Ev(op, path, arg, len, ret) ==
    [op |-> op, path |-> path, arg |-> arg, len |-> len, ret |-> ret]

NoCall == [op |-> "none", old |-> 0, new |-> 0]

NoResets == [master |-> 0, oldKek |-> 0, newKek |-> 0]

\* no create or password change call is in progress
KeyIdle ==
    /\ pcK = "idle"
    /\ call = NoCall
    /\ config = DefaultConfig
    /\ cfgType = "None"
    /\ userKey = NoKek
    /\ volumeKey = NoKey
    /\ retK = FALSE
    /\ errorMsg = ""
    /\ exitK = "none"
    /\ trace = <<>>
    /\ handed = <<>>
    /\ resets = NoResets
    /\ acquired = {}
    /\ storeAtCall = store

\* no export is in progress and nothing was exported
ExportIdle ==
    /\ pcE = "idle"
    /\ stack = <<>>
    /\ cur = NoFile
    /\ retVal = TRUE
    /\ result = FALSE
    /\ exportMsg = ""
    /\ destDirs = <<>>
    /\ destFiles = <<>>
    /\ openFds = {}
    /\ faults = {}
    /\ visited = <<>>
    /\ dirRet = <<>>
    /\ fileRet = <<>>
    /\ ioLog = <<>>

InitExport ==
    /\ store = [type |-> "V6", cfg |-> ExistingConfig("V6", "ssl/aes", 1, 1)]
    /\ KeyIdle
    /\ pcE = "idle"
    /\ stack = <<>>
    /\ cur = NoFile
    /\ retVal = TRUE
    /\ result = FALSE
    /\ exportMsg = ""
    /\ fsize \in SizeProfiles
    /\ destDirs = <<>>
    /\ destFiles = <<>>
    /\ openFds = {}
    /\ faults = {}
    /\ visited = <<>>
    /\ dirRet = <<>>
    /\ fileRet = <<>>
    /\ ioLog = <<>>
    /\ masterKey = StoredMaster(store)
    /\ arith = ArithIdle

\* ---------------------------------------------------------------- export
\* messages initFS may leave in its error stream when it yields no root
InitFSMessages == {"", "Error decoding volume key, password incorrect"}

\* an error message that is passed on as initFS left it
NoRootMessage_Raw(m) == m

\* if(ostr.str().length() == 0) ostr << "No encrypted filesystem found"
NoRootMessage(m) == IF Len(m) = 0 THEN "No encrypted filesystem found" ELSE m

\* exportEncFS up to the call of exportDir: initFS, the error message, the
\* first exportDir call on "/"
ExportBegin ==
    /\ pcE = "idle"
    /\ \/ \E m \in InitFSMessages :
            /\ exportMsg' = NoRootMessage(m)
            /\ result' = FALSE
            /\ pcE' = "done"
            /\ Fault("initFS", Root)
            /\ ioLog' = Append(ioLog, Ev("initFS", Root, 0, Len(m), -1))
            /\ UNCHANGED stack
       \/ /\ stack' = <<[dir |-> Root, dest |-> ExportPath, idx |-> 0]>>
          /\ pcE' = "dir"
          /\ ioLog' = Append(ioLog, Ev("initFS", Root, 0, 0, 0))
          /\ UNCHANGED <<result, exportMsg, faults>>
    /\ UNCHANGED <<cur, retVal, fsize, destDirs, destFiles, openFds, visited,
                   dirRet, fileRet, keyVars, arith>>

\* the directory a destination path lies in
Parent(p) == SubSeq(p, 1, Len(p) - 1)

\* whether the directory that is to hold destination path p exists; the
\* directory holding the export path itself always does
ParentExists(p) == p = ExportPath \/ Parent(p) \in DOMAIN destDirs

\* a test that lets a failed getAttr through
GetAttrFailed_Ignored(ret) == FALSE

\* if(dirNode->getAttr(&st)) return false
GetAttrFailed(ret) == ret # 0

\* exportDir from its entry to the first nextPlaintextName: lookupNode,
\* getAttr, mkdir, openDir.  A null node is dereferenced unchecked, which
\* ends the process.  mkdir fails when it is made to, and when the directory
\* that is to hold the new one does not exist; its result is not looked at.
ExportDirEnter ==
    /\ pcE = "dir"
    /\ \/ /\ Fault("lookupDir", Top.dir)
          /\ pcE' = "crashed"
          /\ UNCHANGED <<stack, retVal, destDirs, ioLog>>
       \/ \E attrRet \in {0, -1}, made \in BOOLEAN, valid \in BOOLEAN :
            IF GetAttrFailed(attrRet)
            THEN /\ made /\ valid
                 /\ Fault("getAttr", Top.dir)
                 /\ retVal' = FALSE
                 /\ pcE' = "ret"
                 /\ UNCHANGED <<stack, destDirs, ioLog>>
            ELSE /\ made => ParentExists(Top.dest)
                 /\ Faults((IF attrRet # 0 THEN {<<"getAttr", Top.dir>>} ELSE {})
                           \cup (IF ~made /\ ParentExists(Top.dest)
                                 THEN {<<"mkdir", Top.dir>>} ELSE {})
                           \cup (IF ~valid THEN {<<"openDir", Top.dir>>} ELSE {}))
                 /\ destDirs' = (IF made THEN (Top.dest :> Mode(Top.dir)) @@ destDirs
                                         ELSE destDirs)
                 /\ ioLog' = Append(ioLog, Ev("mkdir", Top.dir, Mode(Top.dir), 0,
                                              IF made THEN 0 ELSE -1))
                 /\ pcE' = (IF valid THEN "loop" ELSE "ret")
                 /\ retVal' = TRUE
                 /\ stack' = [stack EXCEPT ![Len(stack)].idx = 1]
    /\ UNCHANGED <<cur, result, exportMsg, fsize, destFiles, openFds, visited,
                   dirRet, fileRet, keyVars, arith>>

\* a loop body that passes over an entry whose stat failed
StatFailRetVal_Continue == TRUE

\* retVal of the loop body when lstat on the encrypted path fails
\* (else { retVal = false; })
StatFailRetVal == FALSE

\* the loop body of exportDir for the name under the cursor: the pseudo
\* entries are passed over, any other entry is stat'ed and classified
ExportDirEntry ==
    /\ pcE = "loop"
    /\ Top.idx <= Len(Listing(Top.dir))
    /\ LET name      == Listing(Top.dir)[Top.idx]
           plainPath == Top.dir \o <<name>>
           destName  == Top.dest \o <<name>>
           advance   == [stack EXCEPT ![Len(stack)].idx = @ + 1]
       IN  IF name = "." \/ name = ".."
           THEN /\ stack' = advance
                /\ UNCHANGED <<pcE, cur, retVal, faults, visited>>
           ELSE /\ visited' = Append(visited, plainPath)
                /\ \/ /\ Fault("lstat", plainPath)
                      /\ retVal' = StatFailRetVal
                      /\ IF retVal'
                         THEN stack' = advance /\ UNCHANGED pcE
                         ELSE pcE' = "ret" /\ UNCHANGED stack
                      /\ UNCHANGED cur
                   \/ /\ Kind(plainPath) = "dir"
                      /\ stack' = Append(stack, [dir |-> plainPath, dest |-> destName, idx |-> 0])
                      /\ pcE' = "dir"
                      /\ UNCHANGED <<cur, retVal, faults>>
                   \/ /\ Kind(plainPath) = "reg"
                      /\ cur' = [NoFile EXCEPT !.src = plainPath, !.dst = destName]
                      /\ pcE' = "fopen"
                      /\ UNCHANGED <<stack, retVal, faults>>
                   \/ /\ Kind(plainPath) \notin {"dir", "reg"}
                      /\ stack' = advance
                      /\ UNCHANGED <<pcE, cur, retVal, faults>>
    /\ UNCHANGED <<result, exportMsg, fsize, destDirs, destFiles, openFds,
                   dirRet, fileRet, ioLog, keyVars, arith>>

\* the cursor is exhausted (empty name): exportDir returns true
ExportDirEnd ==
    /\ pcE = "loop"
    /\ Top.idx > Len(Listing(Top.dir))
    /\ retVal' = TRUE
    /\ pcE' = "ret"
    /\ UNCHANGED <<stack, cur, result, exportMsg, fsize, destDirs, destFiles,
                   openFds, faults, visited, dirRet, fileRet, ioLog, keyVars,
                   arith>>

\* a caller that takes over the value of the recursive call
RecurseRetVal_Propagate(childRet) == childRet

\* retVal of the caller after the recursive exportDir call: the call's
\* value is dropped
RecurseRetVal(childRet) == TRUE

\* exportDir returns retVal to its caller: exportEncFS for the outermost
\* call, else the loop body of the enclosing exportDir
ExportDirReturn ==
    /\ pcE = "ret"
    /\ dirRet' = (Top.dir :> retVal) @@ dirRet
    /\ IF Len(stack) = 1
       THEN /\ result' = retVal
            /\ pcE' = "done"
            /\ stack' = <<>>
            /\ UNCHANGED retVal
       ELSE /\ retVal' = RecurseRetVal(retVal)
            /\ IF retVal'
               THEN /\ stack' = [SubSeq(stack, 1, Len(stack) - 1)
                                   EXCEPT ![Len(stack) - 1].idx = @ + 1]
                    /\ pcE' = "loop"
               ELSE /\ stack' = SubSeq(stack, 1, Len(stack) - 1)
                    /\ pcE' = "ret"
            /\ UNCHANGED result
    /\ UNCHANGED <<cur, exportMsg, fsize, destDirs, destFiles, openFds, faults,
                   visited, fileRet, ioLog, keyVars, arith>>

\* a loop body that drops the value of exportFile
FileRetVal_Dropped(v) == TRUE

\* retVal of exportDir after exportFile returned v (retVal = exportFile(..))
FileRetVal(v) == v

\* exportFile returns v to the loop body of exportDir, which returns at once
\* when retVal is false and else moves the cursor on
FileReturn(v) ==
    /\ fileRet' = (cur.src :> v) @@ fileRet
    /\ cur' = NoFile
    /\ retVal' = FileRetVal(v)
    /\ IF retVal'
       THEN /\ stack' = [stack EXCEPT ![Len(stack)].idx = @ + 1]
            /\ pcE' = "loop"
       ELSE /\ pcE' = "ret"
            /\ UNCHANGED stack

\* the lowest descriptor not in use (0, 1, 2 are the standard streams)
FreeFd == CHOOSE n \in 3..(3 + Cardinality(openFds)) : n \notin openFds

\* exportFile up to the block loop: lookupNode, getAttr, open, creat and the
\* block count.  creat fails when it is made to, and when the directory that
\* is to hold the file does not exist; its result is not looked at.
ExportFileOpen ==
    /\ pcE = "fopen"
    /\ \/ /\ \E k \in {"lookup", "getAttr", "open"} : Fault(k, cur.src)
          /\ FileReturn(FALSE)
          /\ UNCHANGED <<destFiles, openFds, ioLog>>
       \/ /\ \/ /\ ParentExists(cur.dst)
                /\ destFiles' = (cur.dst :> [mode |-> Mode(cur.src), data |-> <<>>]) @@ destFiles
                /\ openFds' = openFds \cup {FreeFd}
                /\ cur' = [cur EXCEPT !.fd = FreeFd, !.i = 0,
                                      !.blocks = BlockCount(fsize[cur.src])]
                /\ ioLog' = Append(ioLog, Ev("creat", cur.src, Mode(cur.src), 0, FreeFd))
                /\ UNCHANGED faults
             \/ /\ IF ParentExists(cur.dst)
                   THEN Fault("creat", cur.src)
                   ELSE UNCHANGED faults
                /\ cur' = [cur EXCEPT !.fd = -1, !.i = 0,
                                      !.blocks = BlockCount(fsize[cur.src])]
                /\ ioLog' = Append(ioLog, Ev("creat", cur.src, Mode(cur.src), 0, -1))
                /\ UNCHANGED <<destFiles, openFds>>
          /\ pcE' = "file"
          /\ UNCHANGED <<stack, retVal, fileRet>>
    /\ UNCHANGED <<result, exportMsg, fsize, destDirs, visited, dirRet, keyVars, arith>>

\* writeRet of one loop iteration: 0 unless bytes were read, else what
\* fs_layer::write returned
WriteRet(readBytes, written) == IF readBytes > 0 THEN written ELSE 0

\* an abort that leaves the destination open
AbortCloses_None(fd) == <<>>

\* the handles closed when the loop is left for a failed write
\* (fs_layer::close(fd); return false;)
AbortCloses(fd) == <<fd>>

\* fs_layer::close on each handle of hs, for source path p
CloseEvents(p, hs) ==
    [k \in 1..Len(hs) |->
        Ev("close", p, hs[k], 0, IF hs[k] \in openFds THEN 0 ELSE -1)]

\* one iteration of the block loop: a read at i * blockSize, a write of the
\* bytes read, the test of writeRet
ExportFileBlock ==
    /\ pcE = "file"
    /\ cur.i < cur.blocks
    /\ \E readOk \in BOOLEAN, writeOk \in BOOLEAN :
         LET data      == IF readOk
                          THEN ReadData(cur.src, fsize[cur.src], ReadOffset(cur.i))
                          ELSE <<>>
             readBytes == IF readOk THEN Len(data) ELSE -1
             writes    == readBytes > 0
             written   == IF writeOk THEN readBytes ELSE -1
             writeRet  == WriteRet(readBytes, written)
             closed    == AbortCloses(cur.fd)
             calls     == <<Ev("read", cur.src, ReadOffset(cur.i), blockSize, readBytes)>>
                          \o (IF writes
                              THEN <<Ev("write", cur.src, cur.fd, readBytes, written)>>
                              ELSE <<>>)
         IN  /\ writes => (writeOk => cur.fd \in openFds)
             /\ ~writes => writeOk
             /\ IF ~readOk THEN Fault("read", cur.src)
                ELSE IF ~writeOk /\ cur.fd \in openFds THEN Fault("write", cur.src)
                ELSE UNCHANGED faults
             /\ IF writes /\ writeOk
                THEN destFiles' = [destFiles EXCEPT ![cur.dst].data = @ \o data]
                ELSE UNCHANGED destFiles
             /\ IF writeRet < 0
                THEN /\ openFds' = openFds \ {closed[k] : k \in 1..Len(closed)}
                     /\ ioLog' = ioLog \o calls \o CloseEvents(cur.src, closed)
                     /\ FileReturn(FALSE)
                ELSE /\ cur' = [cur EXCEPT !.i = @ + 1]
                     /\ ioLog' = ioLog \o calls
                     /\ UNCHANGED <<pcE, stack, retVal, openFds, fileRet>>
    /\ UNCHANGED <<result, exportMsg, fsize, destDirs, visited, dirRet, keyVars, arith>>

\* the loop is over: close the destination and return true
ExportFileEnd ==
    /\ pcE = "file"
    /\ cur.i >= cur.blocks
    /\ openFds' = openFds \ {cur.fd}
    /\ ioLog' = ioLog \o CloseEvents(cur.src, <<cur.fd>>)
    /\ FileReturn(TRUE)
    /\ UNCHANGED <<result, exportMsg, fsize, destDirs, destFiles, faults,
                   visited, dirRet, keyVars, arith>>

NextExport ==
    \/ ExportBegin
    \/ ExportDirEnter
    \/ ExportDirEntry
    \/ ExportDirEnd
    \/ ExportDirReturn
    \/ ExportFileOpen
    \/ ExportFileBlock
    \/ ExportFileEnd

SpecExport == InitExport /\ [][NextExport]_vars

\* ------------------------------------------------- properties of the export
\* the directories a path lies in, outermost first: "/" down to its parent
Enclosing(p) == {SubSeq(p, 1, k) : k \in 0..(Len(p) - 1)}

\* whether path q lies in directory d, at any depth
Inside(d, q) == Len(q) > Len(d) /\ SubSeq(q, 1, Len(d)) = d

\* the position at which entry p was taken from its directory's cursor
VisitedAt(p) == {n \in 1..Len(visited) : visited[n] = p}

WasVisited(p) == VisitedAt(p) # {}

\* no entry of the directory holding p, at any depth, was processed after p
NothingAfterIn(p) ==
    \A n \in VisitedAt(p) : \A m \in (n + 1)..Len(visited) :
        ~Inside(Parent(p), visited[m])

\* the entries that follow p in the listing of its directory
LaterSiblings(p) ==
    LET l == Listing(Parent(p))
        at == CHOOSE n \in 1..Len(l) : l[n] = p[Len(p)]
    IN  {Parent(p) \o <<l[n]>> : n \in {m \in (at + 1)..Len(l) : l[m] \notin {".", ".."}}}

FileFailed(f) == f \in DOMAIN fileRet /\ fileRet[f] = FALSE

\* C1, as stated: when exportFile returns false for a file at any depth, no
\* further entry of any directory is processed, every enclosing exportDir
\* call returns false and exportEncFS returns false.
C1_AbortAtAnyDepth ==
    \A f \in FilePaths : FileFailed(f) =>
        /\ \A n \in VisitedAt(f) : n = Len(visited)
        /\ \A d \in Enclosing(f) : d \in DOMAIN dirRet => dirRet[d] = FALSE
        /\ pcE = "done" => result = FALSE

\* C1, amended: when exportFile returns false for a file, the exportDir call
\* on the directory that holds the file processes no further entry of that
\* directory and returns false; exportEncFS returns false when that
\* directory is the root.
C1_AbortInOwnDirectory ==
    \A f \in FilePaths : FileFailed(f) =>
        /\ NothingAfterIn(f)
        /\ Parent(f) \in DOMAIN dirRet => dirRet[Parent(f)] = FALSE
        /\ (pcE = "done" /\ Parent(f) = Root) => result = FALSE

\* a file two levels down failed, its directory returned false, and the
\* export went on to the end and returned true
C1_Witness ==
    /\ pcE = "done"
    /\ FileFailed(<<"D", "F3">>)
    /\ <<"D">> \in DOMAIN dirRet
    /\ dirRet[<<"D">>] = FALSE
    /\ WasVisited(<<"F2">>)
    /\ result = TRUE

ReadFailed(f) == <<"read", f>> \in faults

WriteFailed(f) == <<"write", f>> \in faults

\* C2, as stated: a read or a write that returns an error makes exportFile
\* return false, and exportEncFS with it.
C2_ReadOrWriteErrorFails ==
    \A f \in FilePaths : (ReadFailed(f) \/ WriteFailed(f)) =>
        /\ f \in DOMAIN fileRet => fileRet[f] = FALSE
        /\ (pcE = "done" /\ Parent(f) = Root) => result = FALSE

StatFailed(e) == <<"lstat", e>> \in faults

DirectFailure(d) ==
    \/ <<"getAttr", d>> \in faults
    \/ \E e \in EntryPaths : Parent(e) = d /\ (StatFailed(e) \/ FileFailed(e))

\* C4: the value of the recursive exportDir call is not propagated: after
\* the call on a subdirectory returned, whatever its value, the caller has
\* gone on to the next entry, and the value an exportDir call returns is
\* decided by its own directory alone.
C4_SubtreeNotPropagated ==
    /\ \A d \in DOMAIN dirRet : dirRet[d] = ~DirectFailure(d)
    /\ \A c \in DOMAIN dirRet : c # Root =>
          \/ LaterSiblings(c) = {}
          \/ \E q \in LaterSiblings(c) : WasVisited(q)
          \/ pcE = "loop" /\ Top.dir = Parent(c)

\* the call on D returned false, the root went on and returned true
C4_Witness ==
    /\ pcE = "done"
    /\ <<"D">> \in DOMAIN dirRet
    /\ dirRet[<<"D">>] = FALSE
    /\ WasVisited(<<"L">>) /\ WasVisited(<<"F2">>)
    /\ dirRet[Root] = TRUE
    /\ result = TRUE

\* C5: when no operation fails, exportEncFS returns true and the
\* destination mirrors the source: a directory per source directory with
\* its mode, a file per regular file with its mode and its bytes in order,
\* for empty files, files below one block and files of several blocks.
C5_ExportFidelity ==
    (pcE \in {"done", "crashed"} /\ faults = {}) =>
        /\ pcE = "done"
        /\ result = TRUE
        /\ DOMAIN destDirs = {ExportPath \o d : d \in DirPaths}
        /\ \A d \in DirPaths : destDirs[ExportPath \o d] = Mode(d)
        /\ DOMAIN destFiles = {ExportPath \o f : f \in FilePaths}
        /\ \A f \in FilePaths :
              /\ destFiles[ExportPath \o f].mode = Mode(f)
              /\ destFiles[ExportPath \o f].data = Content(f, fsize[f])
        /\ openFds = {}

\* a run without failure that exported an empty file, a file below one
\* block, a file of exactly one block and a file of two blocks
C5_Witness ==
    /\ pcE = "done"
    /\ faults = {}
    /\ {Len(destFiles[ExportPath \o f].data) : f \in FilePaths}
          = {0, 100, blockSize, MaxFileSize}
    /\ MaxFileSize > blockSize

\* ------------------------------------------------------- password change
\* what starting a call does to the history of the previous one
BeginCall(c) ==
    /\ call' = c
    /\ storeAtCall' = store
    /\ handed' = <<>>
    /\ resets' = NoResets
    /\ acquired' = {}

\* the call returns b through exit e
ReturnK(b, e) ==
    /\ retK' = b
    /\ exitK' = e
    /\ pcK' = "return"

\* changePassword up to the key derivation: readConfig and Cipher::New
ChangeBegin ==
    /\ pcK = "idle"
    /\ \E old \in Pass, new \in Pass :
          BeginCall([op |-> "changePassword", old |-> old, new |-> new])
    /\ cfgType' = store.type
    /\ config' = (IF store.type = "None" THEN DefaultConfig ELSE store.cfg)
    /\ IF cfgType' = "None"
       THEN /\ errorMsg' = "Unable to load or parse config file"
            /\ trace' = <<>>
            /\ ReturnK(FALSE, "ConfigLoadFailed")
       ELSE /\ trace' = <<"ConfigLoaded">>
            /\ IF ~CipherByIface(config'.cipherIface, config'.keySize)
               THEN /\ errorMsg' = "Unable to find specified cipher"
                    /\ ReturnK(FALSE, "CipherUnsupported")
               ELSE /\ pcK' = "cpVerify"
                    /\ exitK' = "none"
                    /\ UNCHANGED <<retK, errorMsg>>
    /\ UNCHANGED <<store, userKey, volumeKey, masterKey, exportVars, arith>>

\* a check of the old password that lets every key through
OldKeyRejected_Never(vk) == FALSE

\* if(!volumeKey): the stored key did not decode under the old password
OldKeyRejected(vk) == vk = NoKey

\* the old password: getUserKey, readKey and the test of the volume key.
\* readKey is handed the user key unchecked; with an empty user key the
\* call either ends the process or yields no key.
ChangeVerifyOld ==
    /\ pcK = "cpVerify"
    /\ \E derived \in BOOLEAN, s \in FreshSalts(config), rate \in CalibrationRates :
         LET cfg2 == IF derived THEN UserKeyConfig(config, s, rate) ELSE config
             key  == IF derived THEN UserKeyOf(cfg2, call.old) ELSE NoKek
             vk   == ReadKey(cfg2.keyData, key)
         IN  \/ /\ ~derived
                /\ pcK' = "crashed"
                /\ UNCHANGED <<config, userKey, volumeKey, retK, errorMsg, exitK,
                               trace, acquired>>
             \/ /\ config' = cfg2
                /\ userKey' = key
                /\ volumeKey' = vk
                /\ IF OldKeyRejected(vk)
                   THEN /\ errorMsg' = "Invalid old password"
                        /\ ReturnK(FALSE, "OldPasswordInvalid")
                        /\ acquired' = (IF derived THEN {"oldKek"} ELSE {})
                        /\ UNCHANGED trace
                   ELSE /\ trace' = Append(trace, "OldKeyVerified")
                        /\ acquired' = {"oldKek", "master"}
                        /\ pcK' = "cpDerive"
                        /\ UNCHANGED <<retK, errorMsg, exitK>>
    /\ UNCHANGED <<store, call, cfgType, handed, resets, storeAtCall, masterKey, exportVars, arith>>

\* a password change that keeps salt and iteration count
ResetIterations_Kept(cfg) == cfg

\* config->kdfIterations = 0; // generate new
ResetIterations(cfg) == [cfg EXCEPT !.kdfIterations = 0]

\* if(userKey): the new user key exists
NewKeyUsable(key) == key # NoKek

\* the new password: userKey.reset(), kdfIterations = 0, getUserKey; without
\* a new user key the volume key is reset and the call returns
ChangeDeriveNew ==
    /\ pcK = "cpDerive"
    /\ \E derived \in BOOLEAN, s \in FreshSalts(config), rate \in CalibrationRates :
         LET cfg1 == ResetIterations(config)
             cfg2 == IF derived THEN UserKeyConfig(cfg1, s, rate) ELSE cfg1
             key  == IF derived THEN UserKeyOf(cfg2, call.new) ELSE NoKek
         IN  /\ config' = cfg2
             /\ userKey' = key
             /\ IF NewKeyUsable(key)
                THEN /\ resets' = [resets EXCEPT !.oldKek = @ + 1]
                     /\ acquired' = acquired \cup {"newKek"}
                     /\ pcK' = "cpWrap"
                     /\ UNCHANGED <<volumeKey, retK, errorMsg, exitK>>
                ELSE /\ errorMsg' = "Error creating key."
                     /\ resets' = [resets EXCEPT !.oldKek = @ + 1, !.master = @ + 1]
                     /\ volumeKey' = NoKey
                     /\ ReturnK(FALSE, "NewKeyCreationFailed")
                     /\ UNCHANGED acquired
    /\ UNCHANGED <<store, call, cfgType, trace, handed, storeAtCall, masterKey, exportVars, arith>>

\* a change that encodes another master key than the one it decoded
RewrapKey_Fresh(vk, kek) == WriteKey((vk % NumKeys) + 1, kek)

\* cipher->writeKey( volumeKey, keyBuf, userKey ): the key that readKey
\* yielded is encoded under the new user key
RewrapKey(vk, kek) == WriteKey(vk, kek)

\* the volume key is encoded under the new user key, the user key reset and
\* the key data assigned to the configuration
ChangeWrap ==
    /\ pcK = "cpWrap"
    /\ config' = [config EXCEPT !.keyData = RewrapKey(volumeKey, userKey)]
    /\ userKey' = NoKek
    /\ resets' = [resets EXCEPT !.newKek = @ + 1]
    /\ trace' = Append(trace, "NewKeyWrapped")
    /\ pcK' = "cpSave"
    /\ UNCHANGED <<store, call, cfgType, volumeKey, retK, errorMsg, exitK,
                   handed, acquired, storeAtCall, masterKey, exportVars, arith>>

\* a save that always writes the newest format
SaveType_Latest(t) == "V6"

\* saveConfig( cfgType, rootDir, config ): the type readConfig returned
SaveType(t) == t

\* saveConfig replaces the stored configuration as a whole or not at all
SaveConfig(type, cfg, ok) ==
    /\ handed' = Append(handed, [type |-> type, cfg |-> cfg, ok |-> ok])
    /\ IF ok THEN store' = [type |-> type, cfg |-> [cfg EXCEPT !.cfgType = type]]
             ELSE UNCHANGED store

\* saveConfig, the message, volumeKey.reset() and the return
ChangeSave ==
    /\ pcK = "cpSave"
    /\ \E ok \in BOOLEAN :
         /\ SaveConfig(SaveType(cfgType), config, ok)
         /\ IF ok
            THEN /\ errorMsg' = "Volume Key successfully updated."
                 /\ trace' = Append(trace, "Persisted")
                 /\ ReturnK(TRUE, "Persisted")
            ELSE /\ errorMsg' = "Error saving modified config file."
                 /\ ReturnK(FALSE, "PersistFailed")
                 /\ UNCHANGED trace
    /\ volumeKey' = NoKey
    /\ resets' = [resets EXCEPT !.master = @ + 1]
    /\ UNCHANGED <<call, config, cfgType, userKey, acquired, storeAtCall,
                   masterKey, exportVars, arith>>

\* the call has returned: its locals are gone, and its history with them
KeyReturn ==
    /\ pcK = "return"
    /\ pcK' = "idle"
    /\ call' = NoCall
    /\ config' = DefaultConfig
    /\ cfgType' = "None"
    /\ userKey' = NoKek
    /\ volumeKey' = NoKey
    /\ retK' = FALSE
    /\ errorMsg' = ""
    /\ exitK' = "none"
    /\ trace' = <<>>
    /\ handed' = <<>>
    /\ resets' = NoResets
    /\ acquired' = {}
    /\ storeAtCall' = store
    /\ UNCHANGED <<store, masterKey, exportVars, arith>>

\* ---------------------------------------------------------------- create
\* createEncFS up to the key generation: Cipher::New, the name encoding and
\* the configuration record.  A volume is created at a root that holds no
\* configuration yet.
CreateBegin ==
    /\ pcK = "idle"
    /\ store.type = "None"
    /\ \E p \in Pass, cipherName \in CipherNames, keySize \in KeySizes,
          nameEncoding \in NameEncodings, duration \in Durations,
          flags \in FlagProfiles :
         /\ BeginCall([op |-> "createEncFS", old |-> 0, new |-> p,
                       cipher |-> cipherName, keySize |-> keySize,
                       nameEncoding |-> nameEncoding, duration |-> duration,
                       flags |-> flags])
         /\ IF CipherMissing(CipherByName(cipherName, keySize))
            THEN /\ ReturnK(FALSE, "CipherUnsupported")
                 /\ UNCHANGED config
            ELSE /\ config' = NewConfig(cipherName, keySize, 1024, nameEncoding,
                                        duration, flags)
                 /\ pcK' = "ceKeys"
                 /\ exitK' = "none"
                 /\ UNCHANGED retK
    /\ trace' = <<>>
    /\ UNCHANGED <<store, cfgType, userKey, volumeKey, errorMsg, masterKey, exportVars, arith>>

\* newRandomKey, getUserKey, writeKey, userKey.reset(), assignKeyData.
\* writeKey is handed both keys unchecked; with an empty key it either ends
\* the process or leaves key data that decodes under no key.
CreateKeys ==
    /\ pcK = "ceKeys"
    /\ \E vk \in Keys \cup {NoKey}, derived \in BOOLEAN,
          s \in FreshSalts(config), rate \in CalibrationRates :
         LET cfg2 == IF derived THEN UserKeyConfig(config, s, rate) ELSE config
             key  == IF derived THEN UserKeyOf(cfg2, call.new) ELSE NoKek
             sound == vk # NoKey /\ key # NoKek
         IN  \/ /\ ~sound
                /\ pcK' = "crashed"
                /\ UNCHANGED <<config, userKey, volumeKey, resets, acquired>>
             \/ /\ volumeKey' = vk
                /\ userKey' = NoKek
                /\ config' = [cfg2 EXCEPT !.keyData =
                                 IF sound THEN WriteKey(vk, key) ELSE NoKeyData]
                /\ resets' = [resets EXCEPT !.newKek = IF derived THEN 1 ELSE 0]
                /\ acquired' = (IF derived THEN {"newKek"} ELSE {})
                                  \cup (IF vk # NoKey THEN {"master"} ELSE {})
                /\ pcK' = "ceSave"
    /\ UNCHANGED <<store, call, cfgType, retK, errorMsg, exitK, trace, handed,
                   storeAtCall, masterKey, exportVars, arith>>

\* if(!volumeKey) return false; saveConfig( Config_V6, .. ) and the return
CreateSave ==
    /\ pcK = "ceSave"
    /\ IF volumeKey = NoKey
       THEN /\ ReturnK(FALSE, "KeyGenerationFailed")
            /\ UNCHANGED <<store, handed, masterKey>>
       ELSE \E ok \in BOOLEAN :
              /\ SaveConfig("V6", config, ok)
              /\ IF ok THEN ReturnK(TRUE, "Persisted") /\ masterKey' = volumeKey
                       ELSE ReturnK(FALSE, "PersistFailed") /\ UNCHANGED masterKey
    /\ UNCHANGED <<call, config, cfgType, userKey, volumeKey, errorMsg, trace,
                   resets, acquired, storeAtCall, exportVars, arith>>

InitKey ==
    /\ store \in InitStores
    /\ KeyIdle
    /\ masterKey = StoredMaster(store)
    /\ ExportIdle
    /\ fsize = CHOOSE f \in SizeProfiles : TRUE
    /\ arith = ArithIdle

NextKey ==
    \/ ChangeBegin
    \/ ChangeVerifyOld
    \/ ChangeDeriveNew
    \/ ChangeWrap
    \/ ChangeSave
    \/ CreateBegin
    \/ CreateKeys
    \/ CreateSave
    \/ KeyReturn

SpecKey == InitKey /\ [][NextKey]_vars

\* ------------------------------------------- the arithmetic of the block loop
\* int blocks = (node->getSize() + blockSize-1) / blockSize, and the loop
\* entered at i = 0
ArithBlocks ==
    /\ arith.pc = "size"
    /\ arith' = [arith EXCEPT !.blocks = IntBlockCount(arith.size),
                              !.i = 0,
                              !.pc = "loop"]
    /\ UNCHANGED <<exportVars, keyVars>>

\* i < blocks, the test of the for loop
InLoop(i, blocks) == WideLess(Wide(0, i), blocks)

\* the iterations before index j have run
ArithSeek ==
    /\ arith.pc = "loop"
    /\ arith.i = 0
    /\ arith.reads = 0
    /\ \E j \in IndexSamples :
          /\ InLoop(j, arith.blocks)
          /\ arith' = [arith EXCEPT !.i = j]
    /\ UNCHANGED <<exportVars, keyVars>>

\* one iteration: node->read(i * blockSize, ..) and i++
ArithRead ==
    /\ arith.pc = "loop"
    /\ InLoop(arith.i, arith.blocks)
    /\ arith.reads < MaxReads
    /\ \E off \in IntProducts(arith.i) :
          arith' = [arith EXCEPT !.prev = arith.offset,
                                 !.offset = off,
                                 !.i = @ + 1,
                                 !.reads = @ + 1]
    /\ UNCHANGED <<exportVars, keyVars>>

\* the loop is left, or is followed no further
ArithEnd ==
    /\ arith.pc = "loop"
    /\ ~InLoop(arith.i, arith.blocks) \/ arith.reads = MaxReads
    /\ arith' = [arith EXCEPT !.pc = "done"]
    /\ UNCHANGED <<exportVars, keyVars>>

InitBlocks ==
    /\ store = NoStore
    /\ KeyIdle
    /\ masterKey = NoKey
    /\ ExportIdle
    /\ fsize = CHOOSE f \in SizeProfiles : TRUE
    /\ \E size \in SizeSamples : arith = [ArithIdle EXCEPT !.pc = "size", !.size = size]

NextBlocks ==
    \/ ArithBlocks
    \/ ArithSeek
    \/ ArithRead
    \/ ArithEnd

SpecBlocks == InitBlocks /\ [][NextBlocks]_vars

\* --------------------------------------- properties of the key management
\* a changePassword call is about to return
ChangeReturning == pcK = "return" /\ call.op = "changePassword"

\* the key-encryption key a passphrase has under the salt and the iteration
\* count of a stored configuration
StoredUserKey(st, pass) == DeriveKey(pass, st.cfg.salt, st.cfg.kdfIterations)

\* whether a passphrase decodes the key data of a stored configuration
Unlocks(st, pass) == ReadKey(st.cfg.keyData, StoredUserKey(st, pass)) # NoKey

\* C6: after a successful changePassword the key-encryption key of the old
\* passphrase under the old salt and iteration count no longer decodes the
\* stored key data, that of the new passphrase under the stored salt and
\* iteration count does, and the stored salt differs from the one before,
\* also when the new passphrase is the old one.
C6_PasswordChangeRotates ==
    (ChangeReturning /\ exitK = "Persisted") =>
        /\ ReadKey(store.cfg.keyData, StoredUserKey(storeAtCall, call.old)) = NoKey
        /\ Unlocks(store, call.new)
        /\ store.cfg.salt # storeAtCall.cfg.salt

\* a successful change to the passphrase that was valid before
C6_Witness ==
    /\ ChangeReturning
    /\ exitK = "Persisted"
    /\ call.new = call.old
    /\ Unlocks(storeAtCall, call.old)

\* C7, as stated: every configuration handed to saveConfig has
\* kdfIterations > 0, also when the derivation of the key-encryption key
\* failed.
C7_SavedIterationsPositive ==
    \A n \in 1..Len(handed) : handed[n].cfg.kdfIterations > 0

\* C8, as stated: when changePassword returns, each key it obtained (the
\* master key, the old and the new key-encryption key) has been reset
\* explicitly exactly once.
C8_KeysResetOnce ==
    ChangeReturning => \A k \in acquired : resets[k] = 1

ChangeStates == <<"ConfigLoaded", "OldKeyVerified", "NewKeyWrapped", "Persisted">>

FailureExits ==
    {"ConfigLoadFailed", "CipherUnsupported", "OldPasswordInvalid", "NewKeyCreationFailed"}

\* C9: changePassword hands a configuration to saveConfig at most once, and
\* only after ConfigLoaded, OldKeyVerified and NewKeyWrapped were passed in
\* this order, the old passphrase having decoded the stored key; on the
\* exits ConfigLoadFailed, CipherUnsupported, OldPasswordInvalid and
\* NewKeyCreationFailed nothing was handed over and the store is as it was,
\* so that every passphrase that decoded the stored key still does.
C9_SingleGuardedWrite ==
    call.op = "changePassword" =>
        /\ Len(handed) <= 1
        /\ trace = SubSeq(ChangeStates, 1, Len(trace))
        /\ Len(handed) = 1 =>
              /\ Len(trace) >= 3
              /\ Unlocks(storeAtCall, call.old)
        /\ store # storeAtCall => exitK = "Persisted"
        /\ exitK \in FailureExits =>
              /\ handed = <<>>
              /\ store = storeAtCall
              /\ \A p \in Pass : Unlocks(storeAtCall, p) => Unlocks(store, p)

\* a change refused for a wrong old passphrase, on a volume that another
\* passphrase still opens
C9_Witness ==
    /\ ChangeReturning
    /\ exitK = "OldPasswordInvalid"
    /\ ~Unlocks(storeAtCall, call.old)
    /\ \E p \in Pass : Unlocks(store, p)

\* C10: changePassword saves under the format version readConfig returned
\* and changes salt, kdfIterations and key data only: every other field of
\* the stored configuration is as before.
C10_VersionAndFrameKept ==
    call.op = "changePassword" =>
        /\ \A n \in 1..Len(handed) :
              /\ handed[n].type = storeAtCall.type
              /\ Frame(handed[n].cfg) = Frame(storeAtCall.cfg)
        /\ store.type = storeAtCall.type
        /\ Frame(store.cfg) = Frame(storeAtCall.cfg)

\* a successful change on a version 3 configuration
C10_Witness ==
    /\ ChangeReturning
    /\ exitK = "Persisted"
    /\ store.type = "V3"
    /\ storeAtCall.type = "V3"
    /\ store.cfg.keyData # storeAtCall.cfg.keyData

\* ------------------------------------------------- properties of the create
\* a createEncFS call is about to return
CreateReturning == pcK = "return" /\ call.op = "createEncFS"

\* C11: createEncFS with a cipher name or key size for which no cipher is
\* registered returns false at once: no master key was generated, no
\* key-encryption key derived, no configuration built or handed to
\* saveConfig, and the store is as it was.
C11_UnknownCipherFails ==
    (call.op = "createEncFS" /\ ~CipherByName(call.cipher, call.keySize)) =>
        /\ pcK = "return"
        /\ retK = FALSE
        /\ exitK = "CipherUnsupported"
        /\ acquired = {}
        /\ volumeKey = NoKey
        /\ userKey = NoKek
        /\ config = DefaultConfig
        /\ handed = <<>>
        /\ store = storeAtCall

\* a registered cipher name with a key size it is not registered for
C11_Witness ==
    /\ CreateReturning
    /\ call.cipher = "AES"
    /\ ~CipherByName(call.cipher, call.keySize)
    /\ retK = FALSE

\* whether a name encoding is in the algorithm list
Registered(nameEncoding) == \E a \in NameAlgorithms : a.name = nameEncoding

\* the block interface as createEncFS writes it
DefaultNameIface == CompatIface(BlockCurrentInterface)

\* C12: createEncFS with a name encoding that is not in the algorithm list
\* does not fail for it: the configuration it builds, hands to saveConfig and
\* persists carries the default block interface and is the one built for
\* the name "Block", and the call ends as it does for that name.
C12_UnknownNameEncodingDefaults ==
    (call.op = "createEncFS" /\ ~Registered(call.nameEncoding)
        /\ CipherByName(call.cipher, call.keySize)) =>
        /\ config.nameIface = DefaultNameIface
        /\ DefaultNameIface.name = "nameio/block"
        /\ Frame(config) = Frame(NewConfig(call.cipher, call.keySize, 1024, "Block",
                                           call.duration, call.flags))
        /\ \A n \in 1..Len(handed) : handed[n].cfg.nameIface = DefaultNameIface
        /\ exitK \in {"none", "KeyGenerationFailed", "PersistFailed", "Persisted"}
        /\ exitK = "Persisted" =>
              /\ retK = TRUE
              /\ store.type = "V6"
              /\ store.cfg.nameIface = DefaultNameIface

\* a volume created under an unknown name encoding
C12_Witness ==
    /\ CreateReturning
    /\ call.nameEncoding = "Base64"
    /\ exitK = "Persisted"
    /\ retK = TRUE
    /\ store.cfg.nameIface.name = "nameio/block"

\* C17, as stated: when createEncFS returns after it obtained key material
\* (master key generation failed, saveConfig failed, or success), each key
\* it obtained, the key-encryption key and the master key, has been reset
\* explicitly.
C17_CreateKeysInvalidated ==
    CreateReturning => \A k \in acquired : resets[k] >= 1

\* the passphrases that decode the key data of a stored configuration
Opens(st) == {p \in Pass : Unlocks(st, p)}

\* what the key data of a stored configuration decodes to under a passphrase
KeyUnder(st, p) == ReadKey(st.cfg.keyData, StoredUserKey(st, p))

Calls(op, p) == {n \in 1..Len(ioLog) : ioLog[n].op = op /\ ioLog[n].path = p}

\* the destination of file f was created: creat returned a handle
Created(f) == \E n \in Calls("creat", f) : ioLog[n].ret >= 0

\* C13: when exportFile returns after the destination file was created, with
\* true or with false, it has closed the handle creat returned exactly once,
\* after the creat; no destination handle is open outside the block loop,
\* and within it only the handle of the file being copied, not yet closed.
C13_HandleClosedOnce ==
    /\ \A f \in DOMAIN fileRet : Created(f) =>
          /\ Cardinality(Calls("close", f)) = 1
          /\ \A c \in Calls("creat", f) : \A n \in Calls("close", f) :
                /\ n > c
                /\ ioLog[n].arg = ioLog[c].ret
                /\ ioLog[n].ret = 0
    /\ pcE # "file" => openFds = {}
    /\ pcE = "file" =>
          /\ openFds \subseteq {cur.fd}
          /\ Calls("close", cur.src) = {}

\* one file was copied to the end, the copy of another was ended by a failed
\* write; both destinations had been created
C13_Witness ==
    /\ pcE = "done"
    /\ <<"F1">> \in DOMAIN fileRet /\ fileRet[<<"F1">>] = TRUE
    /\ Created(<<"F1">>)
    /\ FileFailed(<<"F2">>)
    /\ Created(<<"F2">>)
    /\ WriteFailed(<<"F2">>)
    /\ openFds = {}

\* C14: when initFS yields no root, exportEncFS returns false with a
\* non-empty error message, "No encrypted filesystem found" when initFS left
\* none; exportDir is not called and nothing is created at the destination.
\* Else exportEncFS returns the value of exportDir on the logical root.
C14_NoRootNoExport ==
    pcE # "idle" =>
        /\ Len(ioLog) >= 1
        /\ ioLog[1].op = "initFS"
        /\ ioLog[1].ret < 0 =>
              /\ pcE = "done"
              /\ result = FALSE
              /\ exportMsg # ""
              /\ ioLog[1].len = 0 => exportMsg = "No encrypted filesystem found"
              /\ Len(ioLog) = 1
              /\ stack = <<>>
              /\ dirRet = <<>>
              /\ visited = <<>>
              /\ destDirs = <<>>
              /\ destFiles = <<>>
        /\ (ioLog[1].ret >= 0 /\ pcE = "done") =>
              /\ Root \in DOMAIN dirRet
              /\ result = dirRet[Root]

\* initFS yielded no root and left no message
C14_Witness ==
    /\ pcE = "done"
    /\ Len(ioLog) = 1
    /\ ioLog[1].ret < 0
    /\ ioLog[1].len = 0
    /\ exportMsg = "No encrypted filesystem found"
    /\ result = FALSE

\* ceil(s / b) of the integers
CeilDiv(s, b) == IF s % b = 0 THEN s \div b ELSE (s \div b) + 1

\* the reads of file f, and its reads and writes, in the order of the calls
FileReads(f) ==
    LET IsRead(e) == e.path = f /\ e.op = "read"
    IN  SelectSeq(ioLog, IsRead)

FileIO(f) ==
    LET IsIO(e) == e.path = f /\ e.op \in {"read", "write"}
    IN  SelectSeq(ioLog, IsIO)

\* C15: the k-th read of a file (from 0) is at offset k * 512 with length
\* 512, and there are never more than ceil(s / 512) of them; a copy that
\* runs to its end has issued exactly ceil(s / 512); a read that returned a
\* positive count is followed by the write of that many bytes before the
\* next read, nothing else is written, and only a failed write ends the copy
\* early; a file of size 0 is neither read nor written.
C15_BlockReads ==
    \A f \in FilePaths :
        LET io    == FileIO(f)
            reads == FileReads(f)
        IN  /\ Len(reads) <= CeilDiv(fsize[f], 512)
            /\ \A k \in 1..Len(reads) :
                  /\ reads[k].arg = (k - 1) * 512
                  /\ reads[k].len = 512
            /\ \A n \in 1..Len(io) :
                  /\ (io[n].op = "read" /\ io[n].ret > 0) =>
                        /\ n < Len(io)
                        /\ io[n + 1].op = "write"
                        /\ io[n + 1].len = io[n].ret
                  /\ io[n].op = "write" =>
                        /\ n > 1
                        /\ io[n - 1].op = "read"
                        /\ io[n - 1].ret > 0
                  /\ (io[n].op = "write" /\ io[n].ret < 0) => n = Len(io)
            /\ (f \in DOMAIN fileRet /\ fileRet[f]) =>
                  Len(reads) = CeilDiv(fsize[f], 512)
            /\ (FileFailed(f) /\ Len(io) > 0) => io[Len(io)].ret < 0
            /\ fsize[f] = 0 => io = <<>>

\* an export that copied a file of two blocks and an empty file
C15_Witness ==
    /\ pcE = "done"
    /\ \E f \in FilePaths :
          /\ fsize[f] = MaxFileSize
          /\ f \in DOMAIN fileRet /\ fileRet[f]
          /\ Len(FileReads(f)) = 2
          /\ FileReads(f)[2].arg = 512
          /\ Len(FileIO(f)) = 4
    /\ \E f \in FilePaths :
          /\ fsize[f] = 0
          /\ f \in DOMAIN fileRet /\ fileRet[f]

\* C16: when an entry of a directory is processed, mkdir has been called
\* for the destination of that directory with the permission bits of the
\* source directory, and where it succeeded the directory is there with
\* these bits; when getAttr on a source directory fails, exportDir returns
\* false, has not called mkdir for it, and no entry below it is processed.
C16_DirectoryFirst ==
    /\ \A n \in 1..Len(visited) :
          LET d == Parent(visited[n])
          IN  \E m \in Calls("mkdir", d) :
                /\ ioLog[m].arg = Mode(d)
                /\ ioLog[m].ret = 0 =>
                      /\ ExportPath \o d \in DOMAIN destDirs
                      /\ destDirs[ExportPath \o d] = Mode(d)
    /\ \A d \in DirPaths : <<"getAttr", d>> \in faults =>
          /\ \/ d \in DOMAIN dirRet /\ dirRet[d] = FALSE
             \/ pcE = "ret" /\ Top.dir = d /\ retVal = FALSE
          /\ Calls("mkdir", d) = {}
          /\ ExportPath \o d \notin DOMAIN destDirs
          /\ \A n \in 1..Len(visited) : ~Inside(d, visited[n])

\* getAttr failed on D: the call on D returned false, nothing of D is at the
\* destination, and the root, created before its first entry, went on
C16_Witness ==
    /\ pcE = "done"
    /\ <<"getAttr", <<"D">>>> \in faults
    /\ <<"D">> \in DOMAIN dirRet
    /\ dirRet[<<"D">>] = FALSE
    /\ Calls("mkdir", Root) # {}
    /\ ExportPath \in DOMAIN destDirs
    /\ WasVisited(<<"F1">>)
    /\ WasVisited(<<"F2">>)

\* C19, as stated: exportFile returns true only when the destination file
\* was created, and an entry of a directory is processed only when the
\* destination of that directory was created.
C19_CreateFailureReported ==
    /\ \A f \in DOMAIN fileRet : fileRet[f] => ExportPath \o f \in DOMAIN destFiles
    /\ \A n \in 1..Len(visited) :
          ExportPath \o Parent(visited[n]) \in DOMAIN destDirs

\* ------------------------------------ properties of the block loop arithmetic
\* ceil(size / blockSize) of the integers
CeilBlocks(size) == IF size.rem = 0 THEN size.full ELSE WideSucc(size.full)

\* C20, as stated: for every file size the block count is ceil(size / 512),
\* and the offset of every read is non-negative, is i * 512, and exceeds the
\* offset of the read before it.
C20_NoWrapAround ==
    /\ arith.pc \in {"loop", "done"} => arith.blocks = CeilBlocks(arith.size)
    /\ arith.reads > 0 =>
          /\ arith.offset.hi >= 0
          /\ arith.offset = WideProduct(arith.i - 1)
    /\ arith.reads > 1 => WideLess(arith.prev, arith.offset)

====
